---- MODULE Spec2Model ----
(***************************************************************************)
(* GNRC network interface adaption for the ESP-NOW WiFi P2P protocol:      *)
(* _send / _recv of cpu/esp32/esp-now (esp_now_gnrc.c) together with the   *)
(* packet types of esp_now_netdev.h.                                       *)
(***************************************************************************)
EXTENDS Integers, Sequences, FiniteSets, TLC

(***************************************************************************)
(* Program constants                                                       *)
(***************************************************************************)
ESP_NOW_MAX_SIZE_RAW == 250
ESP_NOW_ADDR_LEN == 6
\* sizeof(esp_now_pkt_hdr_t): one packed uint8_t
ESP_NOW_HEADER_LENGTH == 1
ESP_NOW_MAX_SIZE == ESP_NOW_MAX_SIZE_RAW - ESP_NOW_HEADER_LENGTH
\* sizeof(esp_now_pkt_t): buf (250) + len (1) + mac (6)
sizeof_esp_now_pkt_t == ESP_NOW_MAX_SIZE_RAW + 1 + ESP_NOW_ADDR_LEN
\* errno value returned (negated) by every rejection of _send
EBADMSG == 77
\* sizeof(gnrc_netif_hdr_t)
sizeof_gnrc_netif_hdr_t == 8
\* total size of the packet buffer gnrc_pktbuf_add allocates from
GNRC_PKTBUF_SIZE == 6144

Uint8(n) == n % 256
\* conversion to unsigned (32 bits): a negative value wraps to the top of the
\* range; the checker's integers end at 2^31 - 1, which stands for 2^32 - 1
Unsigned(n) == IF n < 0 THEN 2147483647 + (1 + n) ELSE n

(***************************************************************************)
(* Bounds of the model                                                     *)
(***************************************************************************)
\* largest number of payload segments of an outbound chain, when _send is
\* examined alone
MaxSegs == 3
\* largest number of payload segments of an outbound chain, when sending,
\* the receive callback and receiving run together
MaxLoopSegs == 2

(***************************************************************************)
(* Packet snips (gnrc_pktsnip_t) and link-layer headers (gnrc_netif_hdr_t) *)
(***************************************************************************)
GNRC_NETTYPE_NETIF == "NETIF"
GNRC_NETTYPE_UNDEF == "UNDEF"
GNRC_NETTYPE_SIXLOWPAN == "SIXLOWPAN"
GNRC_NETTYPE_IPV6 == "IPV6"

GNRC_NETIF_HDR_FLAGS_BROADCAST == "BROADCAST"
GNRC_NETIF_HDR_FLAGS_MULTICAST == "MULTICAST"

MacA == <<170, 187, 204, 221, 238, 255>>
MacB == <<2, 4, 6, 8, 10, 12>>
MacSelf == <<36, 10, 196, 0, 0, 1>>
MacZero == <<0, 0, 0, 0, 0, 0>>
\* a destination of 8 bytes (e.g. an EUI-64) and one of 2 bytes
Long8 == <<1, 2, 3, 4, 5, 6, 7, 8>>
Short2 == <<18, 52>>

NoHdr ==
    [flags |-> {}, src |-> <<>>, dst |-> <<>>,
     src_l2addr_len |-> 0, dst_l2addr_len |-> 0, if_pid |-> "undef"]

Snip(type, data, hdr) ==
    [type |-> type, size |-> Len(data), data |-> data, hdr |-> hdr]

\* the contents of the k-th payload segment of a chain, n bytes long
SegData(k, n) == [i \in 1..n |-> (k * 37 + i) % 256]

\* the segment sizes outbound chains are built from: 100/100/60 exceeds the
\* maximum, 100+149 meets it exactly and 100+150 exceeds it by one
SegSizes == {60, 100, ESP_NOW_MAX_SIZE - 100, ESP_NOW_MAX_SIZE - 99}
\* the sizes used when sending and receiving run together
LoopSegSizes == {100, ESP_NOW_MAX_SIZE - 100, ESP_NOW_MAX_SIZE - 99}

\* the sequences of at most n sizes
RECURSIVE SizeSeqs(_, _)
SizeSeqs(n, sizes) ==
    IF n = 0 THEN {<<>>}
    ELSE LET shorter == SizeSeqs(n - 1, sizes)
         IN  shorter \cup
             {Append(s, z) : s \in {t \in shorter : Len(t) = n - 1}, z \in sizes}

\* link-layer headers handed down by the upper stack
OutHdr(flags, dst) ==
    [flags |-> flags, src |-> <<>>, dst |-> dst,
     src_l2addr_len |-> 0, dst_l2addr_len |-> Len(dst), if_pid |-> "undef"]

OutHdrs ==
    {OutHdr({}, MacA), OutHdr({}, MacB), OutHdr({}, Long8), OutHdr({}, Short2),
     OutHdr({GNRC_NETIF_HDR_FLAGS_BROADCAST}, Long8),
     OutHdr({GNRC_NETIF_HDR_FLAGS_MULTICAST}, MacA),
     OutHdr({GNRC_NETIF_HDR_FLAGS_BROADCAST, GNRC_NETIF_HDR_FLAGS_MULTICAST}, <<>>)}

\* first segments: a generic netif header, or a segment of another type
FirstSnips ==
    {Snip(GNRC_NETTYPE_NETIF, <<>>, h) : h \in OutHdrs}
        \cup {Snip(GNRC_NETTYPE_IPV6, <<>>, OutHdr({}, MacA))}

\* the types the segment after the header can have in a build
\* (GNRC_NETTYPE_SIXLOWPAN only exists with MODULE_GNRC_SIXLOWPAN)
PayloadTypes(sixlowpan) ==
    IF sixlowpan THEN {GNRC_NETTYPE_SIXLOWPAN, GNRC_NETTYPE_IPV6}
    ELSE {GNRC_NETTYPE_IPV6}

PayloadSnips(type, sizes) ==
    [k \in 1..Len(sizes) |->
        Snip(IF k = 1 THEN type ELSE GNRC_NETTYPE_UNDEF, SegData(k, sizes[k]), NoHdr)]

\* the chains the upper stack hands to _send, given the size sequences of
\* their payload segments
OutChains(sixlowpan, sizeseqs) ==
    {<<f>> \o PayloadSnips(t, s) :
        f \in FirstSnips, t \in PayloadTypes(sixlowpan), s \in sizeseqs}


(***************************************************************************)
(* State                                                                   *)
(***************************************************************************)
VARIABLES
    MODULE_GNRC_SIXLOWPAN, \* build option: is the 6LoWPAN module compiled in
    addr,          \* esp_now_netdev_t.addr: the device's own address
    rx_pkt,        \* esp_now_netdev_t.rx_pkt: the single receive packet
    dev_lock,      \* esp_now_netdev_t.dev_lock
    pc,            \* position of the netif thread
    tx_chain,      \* the chain handed to the running / last _send
    tx_users,      \* users count of every segment of tx_chain
    sent,          \* calls of dev->driver->send made by that _send
    send_ret,      \* its return value
    tx_written,    \* bytes that _send copied into esp_now_pkt.buf.data
    recv_res,      \* the result of dev->driver->recv in the running / last _recv
    recv_ret,      \* the chain that _recv returned (<<>> is NULL)
    pktbuf_adds,   \* calls of gnrc_pktbuf_add made by that _recv
    pktbuf_live,   \* segments allocated by that _recv and not released
    rx_origin,     \* where the frame in rx_pkt came from (history)
    held           \* a chain that _recv returned and the stack still holds

vars ==
    <<MODULE_GNRC_SIXLOWPAN, addr, rx_pkt, dev_lock, pc, tx_chain, tx_users,
      sent, send_ret, tx_written, recv_res, recv_ret, pktbuf_adds, pktbuf_live,
      rx_origin, held>>

devVars == <<MODULE_GNRC_SIXLOWPAN, addr>>
sendVars == <<tx_chain, tx_users, sent, send_ret, tx_written>>
recvVars == <<recv_res, recv_ret, pktbuf_adds, pktbuf_live>>

NULL == <<>>

\* esp_now_pkt_t: buf.hdr.flags, buf.data (the bytes written so far), len, mac
EspNowPkt(flags, data, len, mac) ==
    [flags |-> flags, data |-> data, len |-> len, mac |-> mac]

NoOrigin == [echo |-> FALSE, P |-> <<>>, A |-> MacZero]

\* the stack holds no chain
NoHeld == [pkt |-> NULL, storage |-> "none"]

(***************************************************************************)
(* _send                                                                   *)
(***************************************************************************)
\* a slip: the chain is left to the transport and never released
gnrc_pktbuf_release_kept(users) == users

\* gnrc_pktbuf_release(pkt): every segment of the chain loses one user
gnrc_pktbuf_release(users) == [i \in 1..Len(users) |-> users[i] - 1]

\* netif_hdr->flags & (BROADCAST | MULTICAST)
IsBroadcast(hdr) ==
    hdr.flags \cap {GNRC_NETIF_HDR_FLAGS_BROADCAST, GNRC_NETIF_HDR_FLAGS_MULTICAST} # {}

\* a slip: an address of 6 bytes is used even when the header is flagged
ResolveMac_lengthFirst(hdr) ==
    IF hdr.dst_l2addr_len = ESP_NOW_ADDR_LEN
    THEN SubSeq(hdr.dst, 1, ESP_NOW_ADDR_LEN)
    ELSE [i \in 1..ESP_NOW_ADDR_LEN |-> 255]

\* the address written to esp_now_pkt.mac
ResolveMac(hdr) ==
    IF IsBroadcast(hdr)
    THEN [i \in 1..ESP_NOW_ADDR_LEN |-> 255]
    ELSE SubSeq(hdr.dst, 1, ESP_NOW_ADDR_LEN)

\* is the destination address of a usable format
AddrFormatOk(hdr) ==
    IsBroadcast(hdr) \/ hdr.dst_l2addr_len = ESP_NOW_ADDR_LEN

\* switch (payload->type): esp_now_pkt.buf.hdr.flags
TagOfType(type, sixlowpan) ==
    IF sixlowpan /\ type = GNRC_NETTYPE_SIXLOWPAN THEN 1 ELSE 0

\* a slip: the raw frame size is taken for the payload capacity
ExceedsMax_raw(payload_len) == payload_len > ESP_NOW_MAX_SIZE_RAW

\* does a cumulative payload length exceed what a frame can carry
ExceedsMax(payload_len) == payload_len > ESP_NOW_MAX_SIZE

\* a slip: a segment is copied before its length is checked
RECURSIVE Assemble_copyFirst(_, _, _, _)
Assemble_copyFirst(pkt, i, payload_len, data) ==
    IF i > Len(pkt)
    THEN [exceeded |-> FALSE, payload_len |-> payload_len, data |-> data]
    ELSE LET n == Unsigned(payload_len + pkt[i].size)
             d == data \o SubSeq(pkt[i].data, 1, pkt[i].size)
         IN  IF ExceedsMax(n)
             THEN [exceeded |-> TRUE, payload_len |-> n, data |-> d]
             ELSE Assemble_copyFirst(pkt, i + 1, n, d)

\* while (payload): segments i.. of pkt are appended to data
RECURSIVE Assemble(_, _, _, _)
Assemble(pkt, i, payload_len, data) ==
    IF i > Len(pkt)
    THEN [exceeded |-> FALSE, payload_len |-> payload_len, data |-> data]
    ELSE LET n == Unsigned(payload_len + pkt[i].size)
         IN  IF ExceedsMax(n)
             THEN [exceeded |-> TRUE, payload_len |-> n, data |-> data]
             ELSE Assemble(pkt, i + 1, n, data \o SubSeq(pkt[i].data, 1, pkt[i].size))

\* esp_now_pkt.len = ESP_NOW_HEADER_LENGTH + (uint8_t)payload_len, a uint8_t
FrameLen(payload_len) == Uint8(ESP_NOW_HEADER_LENGTH + Uint8(payload_len))

\* what reading payload->type can do when payload is NULL
NullReads == {"trap", GNRC_NETTYPE_UNDEF, GNRC_NETTYPE_SIXLOWPAN}

\* results of dev->driver->send for a frame of len bytes
DriverSendResults(len) == {len, -1}

\* a slip: the frame is built in the device's receive packet
RxAfterSend_sharedBuffer(rx, calls) ==
    IF calls = <<>> THEN rx ELSE calls[1].pkt

\* esp_now->rx_pkt after _send: the frame is built in the local esp_now_pkt,
\* the device's receive packet is not written
RxAfterSend(rx, calls) == rx

Outcome(next_pc, users, calls, ret, written) ==
    [pc |-> next_pc, users |-> users, sent |-> calls, ret |-> ret,
     written |-> written]

\* _send(netif, pkt); users are the segments' users counts on entry, nullread
\* what reading through a NULL payload does and ok whether the driver accepts
SendOutcome(pkt, users, sixlowpan, nullread, ok) ==
    IF pkt[1].type # GNRC_NETTYPE_NETIF
    THEN Outcome("send_ret", gnrc_pktbuf_release(users), <<>>, -EBADMSG, 0)
    ELSE IF ~AddrFormatOk(pkt[1].hdr)
    THEN Outcome("send_ret", users, <<>>, -EBADMSG, 0)
    ELSE IF Len(pkt) < 2 /\ nullread = "trap"
    THEN Outcome("crashed", users, <<>>, 0, 0)
    ELSE LET mac == ResolveMac(pkt[1].hdr)
             type == IF Len(pkt) < 2 THEN nullread ELSE pkt[2].type
             flags == TagOfType(type, sixlowpan)
             asm == Assemble(pkt, 2, 0, <<>>)
         IN  IF asm.exceeded
             THEN Outcome("send_ret", gnrc_pktbuf_release(users), <<>>, -EBADMSG,
                          Len(asm.data))
             ELSE LET released == gnrc_pktbuf_release(users)
                      len == FrameLen(asm.payload_len)
                      res == IF ok THEN len ELSE -1
                      call == [pkt |-> EspNowPkt(flags, asm.data, len, mac),
                               iol_len |-> sizeof_esp_now_pkt_t,
                               users |-> released,
                               res |-> res]
                  IN  Outcome("send_ret", released, <<call>>, res, Len(asm.data))


(***************************************************************************)
(* The transport driver (esp_now_netdev.c) as far as the interface uses it *)
(***************************************************************************)
\* results of dev->driver->recv(dev, &rx_pkt, sizeof(rx_pkt), NULL): the
\* length of the frame waiting in rx_pkt; zero or an error when none is
DriverRecvResults(rx) == IF rx.len > 0 THEN {rx.len} ELSE {0, -1}

\* the driver's receive callback: a frame of bytes from mac arrives; it is
\* stored when rx_pkt is clean (len = 0) and dropped when rx_pkt is in use
esp_now_recv_cb(rx, mac, bytes) ==
    IF rx.len # 0 THEN rx
    ELSE EspNowPkt(bytes[1],
                   SubSeq(bytes, ESP_NOW_HEADER_LENGTH + 1, Len(bytes)),
                   Len(bytes), mac)

\* the bytes of a frame as the driver transmits it: len bytes of buf
WireBytes(p) == <<p.flags>> \o SubSeq(p.data, 1, p.len - ESP_NOW_HEADER_LENGTH)

\* lengths that a transport which breaks its contract reports although
\* rx_pkt holds less than a frame header
BadRecvResults == {ESP_NOW_HEADER_LENGTH, ESP_NOW_MAX_SIZE_RAW}

\* size of the payload segment of the chains sent while a chain is held
HoldSegSize == 100

\* frames of other senders: tags 0, 1 and an unknown one, with and without payload
ForeignFrames == {<<t>> \o SegData(9, n) : t \in {0, 1, 2}, n \in {0, 5}}
Senders == {MacA, MacB}

(***************************************************************************)
(* _recv                                                                   *)
(***************************************************************************)
\* a slip: only an error counts as nothing received
RecvEmpty_errorOnly(res) == res < 0

\* if (recv_res <= 0): nothing was received
RecvEmpty(res) == res <= 0

\* a slip: every tag other than 0 is taken for 6LoWPAN
TypeOfTag_anyNonzero(flags, sixlowpan) ==
    IF sixlowpan /\ flags # 0 THEN GNRC_NETTYPE_SIXLOWPAN ELSE GNRC_NETTYPE_UNDEF

\* switch (rx_pkt.buf.hdr.flags): nettype
TypeOfTag(flags, sixlowpan) ==
    IF sixlowpan /\ flags = 1 THEN GNRC_NETTYPE_SIXLOWPAN ELSE GNRC_NETTYPE_UNDEF

\* a slip: the header is counted as payload
PktLen_withHeader(rx) == Unsigned(rx.len)

\* unsigned pkt_len = rx_pkt.len - ESP_NOW_HEADER_LENGTH
PktLen(rx) == Unsigned(rx.len - ESP_NOW_HEADER_LENGTH)

\* n bytes read from the start of a buffer holding data (zero where no
\* frame has written yet)
ReadBytes(data, n) == [i \in 1..n |-> IF i <= Len(data) THEN data[i] ELSE 0]

\* gnrc_pktbuf_add(NULL, data, size, type) succeeds when the packet buffer
\* has room (ok) for a segment of that size
PktbufAddOk(size, ok) == ok /\ size <= GNRC_PKTBUF_SIZE

\* a slip: the source and the destination address are set the wrong way round
RecvNetifHdr_swapped(rx, own) ==
    [type |-> GNRC_NETTYPE_NETIF,
     size |-> sizeof_gnrc_netif_hdr_t + 2 * ESP_NOW_ADDR_LEN,
     data |-> <<>>,
     hdr |-> [flags |-> {},
              src |-> SubSeq(own, 1, ESP_NOW_ADDR_LEN),
              dst |-> SubSeq(rx.mac, 1, ESP_NOW_ADDR_LEN),
              src_l2addr_len |-> ESP_NOW_ADDR_LEN,
              dst_l2addr_len |-> ESP_NOW_ADDR_LEN,
              if_pid |-> "netif"]]

\* the generic netif header _recv builds: gnrc_netif_hdr_init, set_src_addr,
\* set_dst_addr, if_pid = thread_getpid()
RecvNetifHdr(rx, own) ==
    [type |-> GNRC_NETTYPE_NETIF,
     size |-> sizeof_gnrc_netif_hdr_t + 2 * ESP_NOW_ADDR_LEN,
     data |-> <<>>,
     hdr |-> [flags |-> {},
              src |-> SubSeq(rx.mac, 1, ESP_NOW_ADDR_LEN),
              dst |-> SubSeq(own, 1, ESP_NOW_ADDR_LEN),
              src_l2addr_len |-> ESP_NOW_ADDR_LEN,
              dst_l2addr_len |-> ESP_NOW_ADDR_LEN,
              if_pid |-> "netif"]]

\* a slip: the payload segment is kept when the header cannot be allocated
ReleasePkt_forgotten(live) == live

\* gnrc_pktbuf_release(pkt) when the header cannot be allocated: the payload
\* segment, of the live segments this call allocated, is given back
ReleasePkt(live) == live - 1

RecvOutcome(ret, len, adds, live) ==
    [ret |-> ret, len |-> len, adds |-> adds, live |-> live]

\* _recv after the driver reported a frame (lines 129-178); ok1 and ok2 say
\* whether the packet buffer has room for the first and the second segment
Decode(rx, own, sixlowpan, ok1, ok2) ==
    LET nettype == TypeOfTag(rx.flags, sixlowpan)
        pkt_len == PktLen(rx)
    IN  IF ~PktbufAddOk(pkt_len, ok1)
        THEN RecvOutcome(NULL, rx.len, 1, 0)
        ELSE LET pkt == Snip(nettype, ReadBytes(rx.data, pkt_len), NoHdr)
             IN  IF ~PktbufAddOk(sizeof_gnrc_netif_hdr_t + 2 * ESP_NOW_ADDR_LEN, ok2)
                 THEN RecvOutcome(NULL, rx.len, 2, ReleasePkt(1))
                 ELSE RecvOutcome(<<pkt, RecvNetifHdr(rx, own)>>, 0, 2, 2)

\* a slip: the segments point into the device's receive packet
SnipStorage_rxPkt == "rx_pkt"

\* where the bytes of the chain that _recv returns are stored:
\* gnrc_pktbuf_add(NULL, rx_pkt.buf.data, pkt_len, nettype) copies the payload
\* into the packet buffer, gnrc_netif_hdr_set_src_addr copies rx_pkt.mac
SnipStorage == "pktbuf"

\* the payload bytes that a reader of the held chain h finds while the
\* receive packet is rx
HeldPayload(h, rx) ==
    IF h.storage = "rx_pkt"
    THEN ReadBytes(rx.data, h.pkt[1].size)
    ELSE h.pkt[1].data

\* the source address that a reader of the held chain h finds
HeldSrc(h, rx) ==
    IF h.storage = "rx_pkt"
    THEN SubSeq(rx.mac, 1, ESP_NOW_ADDR_LEN)
    ELSE h.pkt[2].hdr.src

(***************************************************************************)
(* The payload of a chain, as the upper stack sees it                      *)
(***************************************************************************)
RECURSIVE ConcatData(_, _)
ConcatData(pkt, i) ==
    IF i > Len(pkt) THEN <<>> ELSE pkt[i].data \o ConcatData(pkt, i + 1)

ChainPayload(pkt) == ConcatData(pkt, 2)

RECURSIVE SumSizes(_, _)
SumSizes(pkt, i) ==
    IF i > Len(pkt) THEN 0 ELSE pkt[i].size + SumSizes(pkt, i + 1)

PayloadTotal(pkt) == SumSizes(pkt, 2)

(***************************************************************************)
(* Initial state and actions                                               *)
(***************************************************************************)
Init ==
    /\ MODULE_GNRC_SIXLOWPAN \in BOOLEAN
    /\ addr = MacSelf
    /\ rx_pkt = EspNowPkt(0, <<>>, 0, MacZero)
    /\ dev_lock = FALSE
    /\ pc = "idle"
    /\ tx_chain = <<>>
    /\ tx_users = <<>>
    /\ sent = <<>>
    /\ send_ret = 0
    /\ tx_written = 0
    /\ recv_res = 0
    /\ recv_ret = NULL
    /\ pktbuf_adds = 0
    /\ pktbuf_live = 0
    /\ rx_origin = NoOrigin
    /\ held = NoHeld

\* the netif thread calls _send with a chain that it owns (one user per
\* segment), its payload segments of the sizes of one of sizeseqs
Send(sizeseqs) ==
    /\ pc = "idle"
    /\ \E pkt \in OutChains(MODULE_GNRC_SIXLOWPAN, sizeseqs), ok \in BOOLEAN :
       \E nullread \in IF Len(pkt) < 2 THEN NullReads ELSE {GNRC_NETTYPE_UNDEF} :
         LET o == SendOutcome(pkt, [i \in 1..Len(pkt) |-> 1],
                              MODULE_GNRC_SIXLOWPAN, nullread, ok)
         IN  /\ tx_chain' = pkt
             /\ tx_users' = o.users
             /\ sent' = o.sent
             /\ send_ret' = o.ret
             /\ tx_written' = o.written
             /\ rx_pkt' = RxAfterSend(rx_pkt, o.sent)
             /\ pc' = o.pc
    /\ UNCHANGED <<devVars, dev_lock, recvVars, rx_origin, held>>

\* _send has returned to the netif thread
SendReturn ==
    /\ pc = "send_ret"
    /\ pc' = "idle"
    /\ tx_chain' = <<>>
    /\ tx_users' = <<>>
    /\ sent' = <<>>
    /\ send_ret' = 0
    /\ tx_written' = 0
    /\ UNCHANGED <<devVars, rx_pkt, dev_lock, recvVars, rx_origin, held>>

\* _send has returned and the frame it transmitted comes back from a peer
\* with sender address A: the driver's receive callback stores it
Echo ==
    /\ pc = "send_ret"
    /\ sent # <<>>
    /\ sent[1].res > 0
    /\ ~dev_lock
    /\ rx_pkt.len = 0
    /\ \E A \in Senders :
         /\ rx_pkt' = esp_now_recv_cb(rx_pkt, A, WireBytes(sent[1].pkt))
         /\ rx_origin' = [echo |-> TRUE, P |-> ChainPayload(tx_chain), A |-> A]
    /\ pc' = "idle"
    /\ tx_chain' = <<>>
    /\ tx_users' = <<>>
    /\ sent' = <<>>
    /\ send_ret' = 0
    /\ tx_written' = 0
    /\ UNCHANGED <<devVars, dev_lock, recvVars, held>>

\* the driver's receive callback runs for a frame of another sender
RecvCb ==
    /\ pc \in {"idle", "recv_decode"}
    /\ ~dev_lock
    /\ \E bytes \in ForeignFrames, mac \in Senders :
         /\ rx_pkt' = esp_now_recv_cb(rx_pkt, mac, bytes)
         /\ rx_origin' = IF rx_pkt.len = 0 THEN NoOrigin ELSE rx_origin
    /\ UNCHANGED <<devVars, dev_lock, pc, sendVars, recvVars, held>>

\* the netif thread calls _recv, which calls dev->driver->recv; the driver
\* takes the device lock
RecvCall ==
    /\ pc = "idle"
    /\ ~dev_lock
    /\ dev_lock' = TRUE
    /\ pc' = "recv_driver"
    /\ UNCHANGED <<devVars, rx_pkt, sendVars, recvVars, rx_origin, held>>

\* dev->driver->recv gives the lock back and returns; _recv returns NULL
\* when nothing was received
RecvDriverReturn ==
    /\ pc = "recv_driver"
    /\ dev_lock' = FALSE
    /\ \E res \in DriverRecvResults(rx_pkt) :
         /\ recv_res' = res
         /\ pc' = IF RecvEmpty(res) THEN "recv_ret" ELSE "recv_decode"
    /\ UNCHANGED <<devVars, rx_pkt, sendVars, recv_ret, pktbuf_adds, pktbuf_live,
                   rx_origin, held>>

\* dev->driver->recv breaks its contract: it gives the lock back and reports
\* a frame although rx_pkt.len is below the header length
RecvDriverReturnBad ==
    /\ pc = "recv_driver"
    /\ rx_pkt.len < ESP_NOW_HEADER_LENGTH
    /\ dev_lock' = FALSE
    /\ \E res \in BadRecvResults : recv_res' = res
    /\ pc' = "recv_decode"
    /\ UNCHANGED <<devVars, rx_pkt, sendVars, recv_ret, pktbuf_adds, pktbuf_live,
                   rx_origin, held>>

\* _recv turns the frame in rx_pkt into a chain
RecvDecode ==
    /\ pc = "recv_decode"
    /\ \E ok1 \in BOOLEAN, ok2 \in BOOLEAN :
         LET o == Decode(rx_pkt, addr, MODULE_GNRC_SIXLOWPAN, ok1, ok2)
         IN  /\ recv_ret' = o.ret
             /\ rx_pkt' = [rx_pkt EXCEPT !.len = o.len]
             /\ pktbuf_adds' = o.adds
             /\ pktbuf_live' = o.live
    /\ pc' = "recv_ret"
    /\ UNCHANGED <<devVars, dev_lock, sendVars, recv_res, rx_origin, held>>

\* _recv has returned to the netif thread, which passes the chain on
RecvReturn ==
    /\ pc = "recv_ret"
    /\ pc' = "idle"
    /\ recv_res' = 0
    /\ recv_ret' = NULL
    /\ pktbuf_adds' = 0
    /\ pktbuf_live' = 0
    /\ rx_origin' = IF rx_pkt.len = 0 THEN NoOrigin ELSE rx_origin
    /\ UNCHANGED <<devVars, rx_pkt, dev_lock, sendVars, held>>

Next ==
    \/ Send(SizeSeqs(MaxLoopSegs, LoopSegSizes))
    \/ SendReturn
    \/ Echo
    \/ RecvCb
    \/ RecvCall
    \/ RecvDriverReturn
    \/ RecvDecode
    \/ RecvReturn

Spec == Init /\ [][Next]_vars

\* _send alone, over the longer chains
NextSend ==
    \/ Send(SizeSeqs(MaxSegs, SegSizes))
    \/ SendReturn

SpecSend == Init /\ [][NextSend]_vars

\* _recv over a transport that may break its contract
\* _recv has returned a chain to the netif thread, and the stack keeps it
RecvReturnHold ==
    /\ pc = "recv_ret"
    /\ recv_ret # NULL
    /\ held = NoHeld
    /\ held' = [pkt |-> recv_ret, storage |-> SnipStorage]
    /\ pc' = "idle"
    /\ recv_res' = 0
    /\ recv_ret' = NULL
    /\ pktbuf_adds' = 0
    /\ pktbuf_live' = 0
    /\ rx_origin' = IF rx_pkt.len = 0 THEN NoOrigin ELSE rx_origin
    /\ UNCHANGED <<devVars, rx_pkt, dev_lock, sendVars>>

\* the stack releases the chain it held
HeldRelease ==
    /\ held # NoHeld
    /\ held' = NoHeld
    /\ UNCHANGED <<devVars, rx_pkt, dev_lock, pc, sendVars, recvVars, rx_origin>>

\* sends and receives while the stack holds a chain that _recv returned
NextHold ==
    \/ Send({<<HoldSegSize>>})
    \/ SendReturn
    \/ RecvCb
    \/ RecvCall
    \/ RecvDriverReturn
    \/ RecvDecode
    \/ RecvReturn
    \/ RecvReturnHold
    \/ HeldRelease

SpecHold == Init /\ [][NextHold]_vars

NextBadTransport ==
    \/ RecvCb
    \/ RecvCall
    \/ RecvDriverReturn
    \/ RecvDriverReturnBad
    \/ RecvDecode
    \/ RecvReturn

SpecBadTransport == Init /\ [][NextBadTransport]_vars

(***************************************************************************)
(* Properties                                                              *)
(***************************************************************************)
AllOnes == <<255, 255, 255, 255, 255, 255>>

\* _send has run to its end on tx_chain: it returned, or the thread died in it
SendOver == pc \in {"send_ret", "crashed"}

\* the first segment of a chain is a generic netif header
StartsWithNetif(pkt) == pkt[1].type = GNRC_NETTYPE_NETIF

\* the header carries the broadcast or the multicast flag
Flagged(hdr) ==
    \/ GNRC_NETIF_HDR_FLAGS_BROADCAST \in hdr.flags
    \/ GNRC_NETIF_HDR_FLAGS_MULTICAST \in hdr.flags

\* well-formed link-layer metadata: a netif header that is flagged
\* broadcast/multicast or declares a destination of 6 bytes
WellFormed(pkt) ==
    /\ StartsWithNetif(pkt)
    /\ Flagged(pkt[1].hdr) \/ pkt[1].hdr.dst_l2addr_len = 6

\* every segment of the chain handed to _send has been released exactly once
ReleasedOnce == \A i \in 1..Len(tx_users) : tx_users[i] = 0

\* C1: for every chain with well-formed metadata whose payload segments total
\* at most ESP_NOW_MAX_SIZE bytes, _send hands the transport exactly one
\* frame, of 1 + total bytes: the tag, then the payload segments in order.
C1_OneFrameTagThenPayload ==
    (SendOver /\ WellFormed(tx_chain) /\ PayloadTotal(tx_chain) <= ESP_NOW_MAX_SIZE)
        => /\ Len(sent) = 1
           /\ sent[1].pkt.len = 1 + PayloadTotal(tx_chain)
           /\ WireBytes(sent[1].pkt) = <<sent[1].pkt.flags>> \o ChainPayload(tx_chain)
           /\ sent[1].pkt.flags \in {0, 1}

\* the same for chains that have a payload segment: this part of C1 holds
C1_HoldsWithPayloadSegment ==
    (SendOver /\ Len(tx_chain) >= 2 /\ WellFormed(tx_chain)
        /\ PayloadTotal(tx_chain) <= ESP_NOW_MAX_SIZE)
        => /\ Len(sent) = 1
           /\ sent[1].pkt.len = 1 + PayloadTotal(tx_chain)
           /\ WireBytes(sent[1].pkt) = <<sent[1].pkt.flags>> \o ChainPayload(tx_chain)
           /\ sent[1].pkt.flags \in {0, 1}

\* C2: on every path through _send every segment of the input chain is
\* released exactly once.
C2_ReleasedOnEveryPath == (pc = "send_ret") => ReleasedOnce

\* C3: after any return of _recv the occupied length of the shared receive
\* buffer, rx_pkt.len, is 0.
C3_RxLenZeroAfterRecv == (pc = "recv_ret") => rx_pkt.len = 0

\* C4: for every chain whose payload segments total more than
\* ESP_NOW_MAX_SIZE bytes, _send rejects with its error and the transport's
\* send is never called.
C4_OversizeRejected ==
    (SendOver /\ PayloadTotal(tx_chain) > ESP_NOW_MAX_SIZE)
        => /\ pc = "send_ret"
           /\ send_ret = -EBADMSG
           /\ sent = <<>>

\* a chain of 100/100/60 bytes with a good unicast header was rejected
C4_Witness ==
    /\ pc = "send_ret"
    /\ Len(tx_chain) = 4
    /\ tx_chain[1].type = GNRC_NETTYPE_NETIF
    /\ tx_chain[1].hdr.dst = MacA
    /\ tx_chain[1].hdr.flags = {}
    /\ <<tx_chain[2].size, tx_chain[3].size, tx_chain[4].size>> = <<100, 100, 60>>
    /\ send_ret = -EBADMSG
    /\ sent = <<>>

\* C5: for every chain flagged broadcast or multicast, the address passed to
\* the transport is ff:ff:ff:ff:ff:ff whatever address and address length
\* the header declares; the declared length never makes _send reject it.
C5_BroadcastIsAllOnes ==
    (pc = "send_ret" /\ StartsWithNetif(tx_chain) /\ Flagged(tx_chain[1].hdr))
        => /\ \A i \in 1..Len(sent) : sent[i].pkt.mac = AllOnes
           /\ PayloadTotal(tx_chain) <= ESP_NOW_MAX_SIZE => Len(sent) = 1

\* a multicast chain that declares the 6-byte address MacA went out to all-ones
C5_Witness ==
    /\ pc = "send_ret"
    /\ StartsWithNetif(tx_chain)
    /\ tx_chain[1].hdr.flags = {GNRC_NETIF_HDR_FLAGS_MULTICAST}
    /\ tx_chain[1].hdr.dst = MacA
    /\ Len(sent) = 1
    /\ sent[1].pkt.mac = AllOnes

\* a broadcast chain that declares an address of 8 bytes went out to all-ones
C5_WitnessOtherLength ==
    /\ pc = "send_ret"
    /\ StartsWithNetif(tx_chain)
    /\ tx_chain[1].hdr.flags = {GNRC_NETIF_HDR_FLAGS_BROADCAST}
    /\ tx_chain[1].hdr.dst_l2addr_len = 8
    /\ Len(sent) = 1
    /\ sent[1].pkt.mac = AllOnes

\* C6: for every chain with an unflagged header that declares a destination
\* of 6 bytes, the address passed to the transport is that destination, and
\* the tag is 1 exactly when the segment after the header is of the 6LoWPAN
\* type, and 0 otherwise.
C6_UnicastAddressAndTag ==
    (SendOver /\ StartsWithNetif(tx_chain) /\ ~Flagged(tx_chain[1].hdr)
        /\ tx_chain[1].hdr.dst_l2addr_len = 6)
        => \A i \in 1..Len(sent) :
              /\ sent[i].pkt.mac = tx_chain[1].hdr.dst
              /\ sent[i].pkt.flags =
                    IF Len(tx_chain) >= 2 /\ tx_chain[2].type = GNRC_NETTYPE_SIXLOWPAN
                    THEN 1 ELSE 0

\* the same for chains that have a payload segment: this part of C6 holds
C6_HoldsWithPayloadSegment ==
    (SendOver /\ Len(tx_chain) >= 2 /\ StartsWithNetif(tx_chain)
        /\ ~Flagged(tx_chain[1].hdr) /\ tx_chain[1].hdr.dst_l2addr_len = 6)
        => \A i \in 1..Len(sent) :
              /\ sent[i].pkt.mac = tx_chain[1].hdr.dst
              /\ sent[i].pkt.flags =
                    IF tx_chain[2].type = GNRC_NETTYPE_SIXLOWPAN THEN 1 ELSE 0

\* C7: a chain whose first segment is no netif header, or whose unflagged
\* header declares a destination that is not 6 bytes long, is rejected with
\* an error, without a call of the transport and with the chain released.
C7_MalformedRejectedAndReleased ==
    (pc = "send_ret" /\ ~WellFormed(tx_chain))
        => /\ send_ret < 0
           /\ sent = <<>>
           /\ ReleasedOnce

\* the part of C7 that holds: the error and no call of the transport
C7_MalformedRejected ==
    (SendOver /\ ~WellFormed(tx_chain))
        => /\ pc = "send_ret"
           /\ send_ret = -EBADMSG
           /\ sent = <<>>

\* C8: when _send encodes a chain with payload P, the frame it transmitted is
\* delivered with sender address A, and the packet buffer has room for the
\* two segments, _recv returns a chain whose payload segment holds exactly P
\* and whose netif header has source address A.
C8_RoundTrip ==
    (pc = "recv_ret" /\ rx_origin.echo /\ recv_res > 0 /\ pktbuf_live = 2)
        => /\ recv_ret # NULL
           /\ recv_ret[1].size = Len(rx_origin.P)
           /\ recv_ret[1].data = rx_origin.P
           /\ recv_ret[2].hdr.src = rx_origin.A
           /\ recv_ret[2].hdr.src_l2addr_len = 6

\* a payload of two segments (100 and 149 bytes, the largest a frame takes)
\* came back from MacB
C8_Witness ==
    /\ pc = "recv_ret"
    /\ rx_origin.echo
    /\ rx_origin.A = MacB
    /\ Len(rx_origin.P) = ESP_NOW_MAX_SIZE
    /\ recv_ret # NULL
    /\ recv_ret[1].data = SegData(1, 100) \o SegData(2, ESP_NOW_MAX_SIZE - 100)

\* C9: the device lock is held for the whole of every receive interaction,
\* every read of rx_pkt by _recv included.
C9_LockHeldWhileReceiving ==
    (pc \in {"recv_driver", "recv_decode"}) => dev_lock

\* C10: when the transport's receive reports a length <= 0, _recv returns
\* NULL, allocates no segment and leaves rx_pkt clean (len = 0).
C10_NothingReceived ==
    (pc = "recv_ret" /\ recv_res <= 0)
        => /\ recv_ret = NULL
           /\ pktbuf_adds = 0
           /\ pktbuf_live = 0
           /\ rx_pkt.len = 0

\* _recv returned after the transport reported 0, the buffer having held a
\* frame before
C10_Witness ==
    /\ pc = "recv_ret"
    /\ recv_res = 0
    /\ rx_pkt.data # <<>>
    /\ recv_ret = NULL

\* _recv has returned after the driver reported a frame
RecvDecoded == pc = "recv_ret" /\ ~RecvEmpty(recv_res)

\* C11: a received frame whose tag is not recognized (any tag but 1, and 1
\* without 6LoWPAN support) is no failure: _recv returns no packet only when
\* the packet buffer had no room, and the payload segment of the packet it
\* returns has type UNDEF; tag 1 with 6LoWPAN support gives type SIXLOWPAN
C11_UnknownTagIsUndef ==
    RecvDecoded =>
        /\ recv_ret = NULL => (pktbuf_adds >= 1 /\ pktbuf_live = 0)
        /\ recv_ret # NULL =>
             recv_ret[1].type = IF MODULE_GNRC_SIXLOWPAN /\ rx_pkt.flags = 1
                                THEN GNRC_NETTYPE_SIXLOWPAN
                                ELSE GNRC_NETTYPE_UNDEF

\* a frame with the unknown tag 2 was returned as a packet of type UNDEF by
\* a build with 6LoWPAN support
C11_Witness ==
    /\ RecvDecoded
    /\ MODULE_GNRC_SIXLOWPAN
    /\ rx_pkt.flags = 2
    /\ recv_ret # NULL
    /\ recv_ret[1].type = GNRC_NETTYPE_UNDEF

\* C12: when _recv returns NULL after a segment allocation failed, no segment
\* that this call allocated is still live: nothing was allocated when the
\* payload segment failed, and the payload segment was released exactly once
\* when the header segment failed
C12_NoLeakOnAllocFailure ==
    (RecvDecoded /\ recv_ret = NULL) =>
        /\ pktbuf_adds \in {1, 2}
        /\ pktbuf_live = 0

\* the header segment could not be allocated after the payload segment was
C12_Witness ==
    /\ RecvDecoded
    /\ recv_ret = NULL
    /\ pktbuf_adds = 2
    /\ pktbuf_live = 0

\* C14: every packet _recv returns is a chain of exactly two segments it
\* allocated: the payload segment, then the netif header and nothing after;
\* the header's source is rx_pkt.mac, its destination the device's own
\* address, both of length 6, and its if_pid the calling interface's
C14_TwoSegmentsPayloadThenHeader ==
    (pc = "recv_ret" /\ recv_ret # NULL) =>
        /\ Len(recv_ret) = 2
        /\ pktbuf_adds = 2
        /\ pktbuf_live = 2
        /\ recv_ret[1].type # GNRC_NETTYPE_NETIF
        /\ recv_ret[2].type = GNRC_NETTYPE_NETIF
        /\ recv_ret[2].hdr.src = rx_pkt.mac
        /\ recv_ret[2].hdr.dst = addr
        /\ recv_ret[2].hdr.src_l2addr_len = ESP_NOW_ADDR_LEN
        /\ recv_ret[2].hdr.dst_l2addr_len = ESP_NOW_ADDR_LEN
        /\ Len(recv_ret[2].hdr.src) = ESP_NOW_ADDR_LEN
        /\ Len(recv_ret[2].hdr.dst) = ESP_NOW_ADDR_LEN
        /\ recv_ret[2].hdr.if_pid = "netif"

\* a frame of the sender MacB was returned as a packet
C14_Witness ==
    /\ pc = "recv_ret"
    /\ recv_ret # NULL
    /\ rx_pkt.mac = MacB
    /\ recv_ret[2].hdr.src = MacB
    /\ recv_ret[2].hdr.dst = MacSelf

\* a chain that passes the checks of _send: well-formed metadata and a payload
\* that fits into one frame
PassesValidation(pkt) ==
    WellFormed(pkt) /\ PayloadTotal(pkt) <= ESP_NOW_MAX_SIZE

\* C13: for every chain that passes validation _send calls the transport's
\* send exactly once and returns the value that call returned; for every
\* rejected chain it does not call the transport.
C13_TransportCalledOnceOrNever ==
    SendOver =>
        IF PassesValidation(tx_chain)
        THEN /\ pc = "send_ret"
             /\ Len(sent) = 1
             /\ send_ret = sent[1].res
        ELSE sent = <<>>

\* the same for chains that have a payload segment: this part of C13 holds
C13_HoldsWithPayloadSegment ==
    (SendOver /\ Len(tx_chain) >= 2) =>
        IF PassesValidation(tx_chain)
        THEN /\ pc = "send_ret"
             /\ Len(sent) = 1
             /\ send_ret = sent[1].res
             /\ send_ret \in DriverSendResults(sent[1].pkt.len)
        ELSE sent = <<>>

\* C17: when _send calls the transport's send, every segment of the input
\* chain has already been released, and nothing is released after the call,
\* whatever the transport returns.
C17_ReleasedBeforeTransport ==
    pc = "send_ret" =>
        \A i \in 1..Len(sent) :
            /\ \A j \in 1..Len(sent[i].users) : sent[i].users[j] = 0
            /\ tx_users = sent[i].users

\* the transport failed for a frame built from a chain with payload segments
C17_Witness ==
    /\ pc = "send_ret"
    /\ Len(tx_chain) >= 2
    /\ Len(sent) = 1
    /\ sent[1].res < 0
    /\ sent[1].users = [j \in 1..Len(tx_chain) |-> 0]
    /\ ReleasedOnce

\* C19: _send reads no segment that does not exist: for a chain that is the
\* netif header alone it returns, having sent a frame of the tag 0 alone
\* when the header is well-formed, without reading the type of a missing
\* payload segment.
C19_NoReadOfMissingSegment ==
    (SendOver /\ Len(tx_chain) = 1) =>
        /\ pc = "send_ret"
        /\ WellFormed(tx_chain) =>
              /\ Len(sent) = 1
              /\ sent[1].pkt.flags = 0
              /\ sent[1].pkt.len = ESP_NOW_HEADER_LENGTH

\* C16: _send never writes more than ESP_NOW_MAX_SIZE bytes into the frame's
\* payload region, also on the path that rejects the chain, because a
\* segment's cumulative length is checked before its bytes are copied; a
\* frame handed to the transport is at most ESP_NOW_MAX_SIZE_RAW bytes long
\* and its 8-bit len is 1 + the payload length, not truncated.
C16_NeverPastTheFrameBuffer ==
    SendOver =>
        /\ tx_written <= ESP_NOW_MAX_SIZE
        /\ \A i \in 1..Len(sent) :
              /\ Len(sent[i].pkt.data) = tx_written
              /\ sent[i].pkt.len <= ESP_NOW_MAX_SIZE_RAW
              /\ sent[i].pkt.len = ESP_NOW_HEADER_LENGTH + PayloadTotal(tx_chain)

\* the payload region was filled to its last byte when a further segment
\* made _send reject the chain
C16_Witness ==
    /\ pc = "send_ret"
    /\ Len(tx_chain) = 4
    /\ PayloadTotal(tx_chain) > ESP_NOW_MAX_SIZE
    /\ tx_written = ESP_NOW_MAX_SIZE
    /\ sent = <<>>
    /\ send_ret = -EBADMSG

\* a step in which _send runs
SendStep == pc = "idle" /\ pc' \in {"send_ret", "crashed"}

\* a step of _recv
RecvStep == pc \in {"idle", "recv_driver", "recv_decode"}
            /\ pc' \in {"recv_driver", "recv_decode", "recv_ret"}

\* C20: _send builds its frame in a buffer of its own: on every path it
\* leaves the shared receive packet (bytes, len, mac) and the device's own
\* address as they were; _recv never changes the device's own address.
C20_SendLeavesDeviceState ==
    [][/\ SendStep => (rx_pkt' = rx_pkt /\ addr' = addr)
       /\ RecvStep => addr' = addr]_vars

\* _send has handed a frame to the transport while a frame of another
\* sender was waiting in the receive packet
C20_Witness ==
    /\ pc = "send_ret"
    /\ Len(sent) = 1
    /\ rx_pkt.len > 0
    /\ rx_pkt.mac # sent[1].pkt.mac
    /\ WireBytes(rx_pkt) # WireBytes(sent[1].pkt)
    /\ addr = MacSelf

\* C15: whenever _recv allocates a payload segment its size is rx_pkt.len
\* minus the header length and not negative; when the transport reports a
\* frame while rx_pkt.len is below the header length, _recv detects it and
\* does not use the wrapped difference as a size.
C15_PayloadSizeNeverWraps ==
    [][(pc = "recv_decode" /\ pc' = "recv_ret") =>
          /\ recv_ret' # NULL =>
                /\ rx_pkt.len - ESP_NOW_HEADER_LENGTH >= 0
                /\ recv_ret'[1].size = rx_pkt.len - ESP_NOW_HEADER_LENGTH
          /\ rx_pkt.len < ESP_NOW_HEADER_LENGTH => pktbuf_adds' = 0]_vars

\* the part of C15 that holds: over a transport that keeps its contract the
\* difference never wraps and is the size of the payload segment
C15_SizeIsLenMinusHeader ==
    /\ pc = "recv_decode" => rx_pkt.len >= ESP_NOW_HEADER_LENGTH
    /\ (pc = "recv_ret" /\ recv_ret # NULL) =>
          /\ recv_res >= ESP_NOW_HEADER_LENGTH
          /\ recv_ret[1].size = recv_res - ESP_NOW_HEADER_LENGTH

====
